---- MODULE Spec2Model ----
(***************************************************************************)
(* Model of the scoring pipeline of the Anomalyse backend                  *)
(* (src/backend/main.py): the /predict handler predict_fraud, the /upload  *)
(* handler upload_csv, the require_token dependency and                    *)
(* /transactions/clear, over the transactions table of models.py.          *)
(*                                                                         *)
(* The handlers are `async def` bodies without any await, so the event     *)
(* loop runs each of them to completion before the next one starts: one    *)
(* request is in flight at a time.  A handler is modelled as its sequence  *)
(* of steps (pc), each step reading the input it consumes at that point.   *)
(*                                                                         *)
(* Numbers: a float x (a probability, a risk score) is modelled as the     *)
(* integer 1000 * x, so 1.0 is 1000, a risk score of 100.0 is 100000 and   *)
(* int(x) is x \div 1000.  Binary floating point rounding is not modelled. *)
(***************************************************************************)
EXTENDS Integers, Sequences, FiniteSets

\* ------------------------------------------------------------------ bounds
\* Requests handled by the process in one behaviour.
MaxRequests == 3
\* The query's .limit(50) of predict_fraud, scaled down so that a user can
\* have more stored transactions than the limit.
HistoryLimit == 2

\* ------------------------------------------------------------- input data
\* A Timestamp cell of a data frame: the text of a CSV cell (at = 0), or a
\* datetime object (text = "", at = the instant, a day number).
Text(s) == [text |-> s, at |-> 0]
Instant(n) == [text |-> "", at |-> n]

ParseableTexts == {"2024-01-01", "2024-01-02", "2024-01-03"}

\* pd.to_datetime: a datetime is returned as it is, a text is parsed;
\* pandas raises on a text that is no date.
to_datetime_raises(c) == c.text # "" /\ c.text \notin ParseableTexts

to_datetime(c) ==
  CASE c.text = "" -> c.at
    [] c.text = "2024-01-01" -> 1
    [] c.text = "2024-01-02" -> 2
    [] c.text = "2024-01-03" -> 3

\* Data lines of the uploaded CSVs.
Row(day, user, amount, city, category) ==
  [Timestamp |-> Text(day), UserID |-> user, Amount |-> amount, City |-> city, Category |-> category]

RowA == Row("2024-01-01", "u1", 10, "Pune", "Food")
RowB == Row("2024-01-02", "u1", 900, "Mumbai", "Travel")
RowC == Row("2024-01-02", "u2", 10, "Pune", "Food")
RowBad == Row("not-a-date", "u1", 10, "Pune", "Food")

AllColumns == {"Timestamp", "UserID", "Amount", "City", "Category"}

\* The CSV files a client uploads: the header line's columns and the data
\* lines.  A cell of a column the header lacks is never read.
CsvFiles ==
  { [columns |-> AllColumns, rows |-> <<RowA>>],
    [columns |-> AllColumns, rows |-> <<RowA, RowB>>],
    [columns |-> AllColumns \cup {"Fraud_Type"}, rows |-> <<RowB, RowA>>],
    [columns |-> AllColumns, rows |-> <<RowC, RowB>>],
    [columns |-> AllColumns, rows |-> <<RowA, RowBad>>],
    [columns |-> AllColumns \ {"City"}, rows |-> <<RowA, RowB>>],
    [columns |-> {"UserID", "Amount", "Fraud_Type"}, rows |-> <<RowC>>] }

\* The bodies a /predict request can carry.
PredictionRequests ==
  { [timestamp |-> t, user_id |-> u, amount |-> a, city |-> "Pune", category |-> "Food"] :
      t \in {"2024-01-02", "2024-01-03", "not-a-date"}, u \in {"u1", "u2"}, a \in {900} }

required_cols == <<"Timestamp", "UserID", "Amount", "City", "Category">>

\* Authorization headers: the empty default, a non-bearer scheme, the
\* development token, a token decode_token accepts and one it rejects.
Headers ==
  { [scheme |-> "", token |-> ""],
    [scheme |-> "Basic ", token |-> "good-jwt"],
    [scheme |-> "Bearer ", token |-> "hardcoded-dev-token-for-deployment"],
    [scheme |-> "Bearer ", token |-> "good-jwt"],
    [scheme |-> "Bearer ", token |-> "bad-jwt"] }

\* auth_utils.decode_token raises on a token that is not a valid JWT.
decode_token_raises(token) == token # "good-jwt"

\* ----------------------------------------------------- the model artifact
\* A feature row falls into one of two regions of the classifier's input
\* space.
Buckets == {1, 2}

Bucket(f) == IF f.Amount >= 500 \/ f.Gap < 0 THEN 2 ELSE 1

\* Probability vectors (in thousandths) a classifier with n classes emits.
ProbaPairs ==
  { <<(<<1000, 0>>), (<<245, 755>>)>>,
    <<(<<245, 755>>), (<<0, 1000>>)>> }

ProbaTriples ==
  { <<(<<0, 0, 1000>>), (<<500, 245, 255>>)>> }

ProbaNoNormal ==
  { <<(<<1000, 0>>), (<<245, 755>>)>> }

Elems(s) == { s[i] : i \in 1..Len(s) }

\* The pipelines pipeline.pkl can contain: classes_, and predict and
\* predict_proba as functions of the feature row's bucket.
PipelinesOf(classes, probas) ==
  { [classes_ |-> classes, predict |-> l, predict_proba |-> p] :
      l \in [Buckets -> Elems(classes)], p \in probas }

Pipelines ==
  PipelinesOf(<<0, 1>>, ProbaPairs)
    \cup PipelinesOf(<<-1, 0, 1>>, ProbaTriples)
    \cup PipelinesOf(<<1, 2>>, ProbaNoNormal)

NoPipeline ==
  [classes_ |-> <<>>, predict |-> [b \in Buckets |-> 0], predict_proba |-> <<(<<>>), (<<>>)>>]

\* What MODEL_PATH holds: nothing, bytes joblib cannot load, or a pipeline.
ModelFiles ==
  { [state |-> s, content |-> NoPipeline] : s \in {"missing", "corrupt"} }
    \cup { [state |-> "pickle", content |-> p] : p \in Pipelines }

\* ------------------------------------------------------------------ state
VARIABLES
  modelFile,     \* what MODEL_PATH holds on disk
  stored,        \* the transactions table, in insertion order
  loads,         \* calls of joblib.load made by this process
  nreq,          \* requests accepted by this process
  handler,       \* the handler of the request in flight (or last handled)
  pc,            \* the step that handler is at
  hdr,           \* the request's Authorization header
  txn,           \* predict_fraud: the request body
  file,          \* upload_csv: the uploaded file
  pipeline,      \* the handler's local `pipeline`
  current_ts,    \* predict_fraud: the local `current_ts`
  history_rows,  \* predict_fraud: the local `history_rows`
  df,            \* the local `df`
  df_processed,  \* the local `df_processed`
  preds,         \* the local `preds` (predict_fraud: the one-element list)
  probs,         \* the local `probs`
  new_txns,      \* upload_csv: the local `new_txns`
  resp,          \* the response sent for the request
  stored0        \* the table when the request started

globals == <<modelFile, stored, loads>>
inputs == <<hdr, txn, file>>
locals == <<pipeline, current_ts, history_rows, df, df_processed, preds, probs, new_txns>>
vars == <<modelFile, stored, loads, nreq, handler, pc, hdr, txn, file, pipeline,
          current_ts, history_rows, df, df_processed, preds, probs, new_txns,
          resp, stored0>>

NoHeader == [scheme |-> "", token |-> ""]
NoTxn == [timestamp |-> "", user_id |-> "", amount |-> 0, city |-> "", category |-> ""]
NoFile == [filename |-> "", columns |-> {}, rows |-> <<>>]
NoFrame == [columns |-> {}, rows |-> <<>>]
NoResp ==
  [status_code |-> 0, detail |-> "", missing |-> <<>>, rowsProcessed |-> 0,
   is_fraud |-> FALSE, risk_score |-> 0, status |-> ""]

Init ==
  /\ modelFile \in ModelFiles
  /\ stored = <<>>
  /\ loads = 0
  /\ nreq = 0
  /\ handler = "none"
  /\ pc = "idle"
  /\ hdr = NoHeader
  /\ txn = NoTxn
  /\ file = NoFile
  /\ pipeline = NoPipeline
  /\ current_ts = 0
  /\ history_rows = <<>>
  /\ df = NoFrame
  /\ df_processed = <<>>
  /\ preds = <<>>
  /\ probs = <<>>
  /\ new_txns = <<>>
  /\ resp = NoResp
  /\ stored0 = <<>>

\* ---------------------------------------------------------------- helpers
\* raise HTTPException(status_code, detail): the handler ends with this
\* response.
Raise(code, detail) ==
  /\ resp' = [NoResp EXCEPT !.status_code = code, !.detail = detail]
  /\ pc' = "done"

\* A request is accepted when no other is in flight.
Accept(h, name, first) ==
  /\ pc \in {"idle", "done"}
  /\ nreq < MaxRequests
  /\ nreq' = nreq + 1
  /\ handler' = name
  /\ pc' = first
  /\ hdr' = h
  /\ txn' = NoTxn
  /\ file' = NoFile
  /\ pipeline' = NoPipeline
  /\ current_ts' = 0
  /\ history_rows' = <<>>
  /\ df' = NoFrame
  /\ df_processed' = <<>>
  /\ preds' = <<>>
  /\ probs' = <<>>
  /\ new_txns' = <<>>
  /\ resp' = NoResp
  /\ stored0' = stored

\* require_token: TRUE when the dependency raises its 401.
require_token_raises(authorization) ==
  \/ authorization.scheme # "Bearer "
  \/ /\ authorization.token # "hardcoded-dev-token-for-deployment"
     /\ decode_token_raises(authorization.token)

\* model.preprocessing.preprocess_data: one feature row per input row, in
\* the input's order; a derived feature of row i (the time since the same
\* user's previous row) reads rows 1..i-1 only.
PrevSameUser(rows, i) == { j \in 1..(i - 1) : rows[j].UserID = rows[i].UserID }

Max(S) == CHOOSE x \in S : \A y \in S : y <= x

Min(a, b) == IF a <= b THEN a ELSE b

preprocess_data_raises(frame) ==
  \E i \in 1..Len(frame.rows) : to_datetime_raises(frame.rows[i].Timestamp)

preprocess_data(frame) ==
  [ i \in 1..Len(frame.rows) |->
      [ Amount |-> frame.rows[i].Amount,
        Gap |-> IF PrevSameUser(frame.rows, i) = {} THEN 0
                ELSE to_datetime(frame.rows[i].Timestamp)
                       - to_datetime(frame.rows[Max(PrevSameUser(frame.rows, i))].Timestamp) ] ]

\* pipeline.predict and pipeline.predict_proba on a feature matrix.
pipeline_predict(p, matrix) == [ i \in 1..Len(matrix) |-> p.predict[Bucket(matrix[i])] ]
pipeline_predict_proba(p, matrix) ==
  [ i \in 1..Len(matrix) |-> p.predict_proba[Bucket(matrix[i])] ]

\* list(classes).index(0)
IndexOfZero(classes) == CHOOSE i \in 1..Len(classes) : classes[i] = 0 /\ \A j \in 1..(i - 1) : classes[j] # 0

\* ------------------------------------------------------- predict_fraud
\* POST /predict: the route declares no require_token dependency.
PredictStart ==
  \E h \in Headers :
    /\ Accept(h, "predict", "p_exists")
    /\ UNCHANGED globals

PredictExists ==
  /\ pc = "p_exists"
  /\ IF modelFile.state = "missing"
       THEN Raise(500, "Model not found. Please train using train_model.py first.")
       ELSE pc' = "p_load" /\ UNCHANGED resp
  /\ UNCHANGED <<globals, nreq, handler, inputs, locals, stored0>>

\* A load step that reuses a pipeline loaded by an earlier request.
PredictLoad_Cached ==
  /\ pc = "p_load"
  /\ loads' = IF loads = 0 THEN 1 ELSE loads
  /\ IF modelFile.state = "corrupt"
       THEN Raise(500, "Failed to load model") /\ UNCHANGED pipeline
       ELSE pipeline' = modelFile.content /\ pc' = "p_ts" /\ UNCHANGED resp
  /\ UNCHANGED <<modelFile, stored, nreq, handler, inputs, current_ts, history_rows,
                 df, df_processed, preds, probs, new_txns, stored0>>

PredictLoad ==
  /\ pc = "p_load"
  /\ loads' = loads + 1
  /\ IF modelFile.state = "corrupt"
       THEN Raise(500, "Failed to load model") /\ UNCHANGED pipeline
       ELSE pipeline' = modelFile.content /\ pc' = "p_ts" /\ UNCHANGED resp
  /\ UNCHANGED <<modelFile, stored, nreq, handler, inputs, current_ts, history_rows,
                 df, df_processed, preds, probs, new_txns, stored0>>

PredictTimestamp ==
  /\ pc = "p_ts"
  /\ \E t \in PredictionRequests :
       /\ txn' = t
       /\ IF to_datetime_raises(Text(t.timestamp))
            THEN Raise(400, "Invalid timestamp format") /\ UNCHANGED current_ts
            ELSE /\ current_ts' = to_datetime(Text(t.timestamp))
                 /\ pc' = "p_query"
                 /\ UNCHANGED resp
  /\ UNCHANGED <<globals, nreq, handler, hdr, file, pipeline, history_rows,
                 df, df_processed, preds, probs, new_txns, stored0>>

\* The rows select(...).where(user_id ==).where(timestamp <)
\* .order_by(timestamp.desc()).limit(n) can return: the database orders
\* rows of equal timestamp as it likes.
\* A filter with <= for <: records dated at the request's instant qualify.
Matching_Inclusive(table, user_id, before) ==
  { k \in 1..Len(table) : table[k].user_id = user_id /\ table[k].timestamp <= before }

Matching(table, user_id, before) ==
  { k \in 1..Len(table) : table[k].user_id = user_id /\ table[k].timestamp < before }

HistoryQuery(table, user_id, before, n) ==
  LET M == Matching(table, user_id, before)
      len == Min(n, Cardinality(M))
  IN { [ i \in 1..len |-> table[w[i]] ] :
         w \in { v \in [1..len -> M] :
                   /\ \A i, j \in 1..len : i < j => v[i] # v[j]
                   /\ \A i, j \in 1..len :
                        i < j => table[v[i]].timestamp >= table[v[j]].timestamp
                   /\ \A k \in M \ { v[i] : i \in 1..len } :
                        \A i \in 1..len : table[k].timestamp <= table[v[i]].timestamp } }

\* history_data: one frame row per history row, in the order fetched.  The
\* constant Fraud_Type cell is kept as a column of the frame only.
HistoryData(rows) ==
  [ i \in 1..Len(rows) |->
      [ Timestamp |-> Instant(rows[i].timestamp), UserID |-> rows[i].user_id,
        Amount |-> rows[i].amount, City |-> rows[i].city,
        Category |-> rows[i].category ] ]

CurrentData(t, ts) ==
  [ Timestamp |-> Instant(ts), UserID |-> t.user_id, Amount |-> t.amount,
    City |-> t.city, Category |-> t.category ]

PredictFrame(rows, t, ts) == Append(HistoryData(rows), CurrentData(t, ts))

PredictHistory ==
  /\ pc = "p_query"
  /\ \/ \E rows \in HistoryQuery(stored, txn.user_id, current_ts, HistoryLimit) :
          /\ history_rows' = rows
          /\ df' = [columns |-> {"Timestamp", "UserID", "Amount", "City", "Category", "Fraud_Type"},
                    rows |-> PredictFrame(rows, txn, current_ts)]
          /\ pc' = "p_prep"
          /\ UNCHANGED resp
     \/ \* the database is unreachable: the exception is not caught
        /\ Raise(500, "Internal Server Error")
        /\ UNCHANGED <<history_rows, df>>
  /\ UNCHANGED <<globals, nreq, handler, inputs, pipeline, current_ts,
                 df_processed, preds, probs, new_txns, stored0>>

PredictPreprocess ==
  /\ pc = "p_prep"
  /\ \/ /\ ~preprocess_data_raises(df)
        /\ df_processed' = preprocess_data(df)
        /\ pc' = "p_score"
        /\ UNCHANGED resp
     \/ /\ Raise(500, "Preprocessing failed")
        /\ UNCHANGED df_processed
  /\ UNCHANGED <<globals, nreq, handler, inputs, pipeline, current_ts, history_rows,
                 df, preds, probs, new_txns, stored0>>

\* Lines 281-285: the fraud probability of one probability vector.
PredictFraudProb(classes, p) ==
  IF 0 \in Elems(classes) THEN 1000 - p[IndexOfZero(classes)] ELSE 1000

\* A scoring step that also stores the scored transaction.
PredictScore_Persisting ==
  /\ pc = "p_score"
  /\ LET last_row == <<df_processed[Len(df_processed)]>>
         pred == pipeline_predict(pipeline, last_row)[1]
         pr == pipeline_predict_proba(pipeline, last_row)[1]
         fraud_prob == PredictFraudProb(pipeline.classes_, pr)
         is_fraud == pred # 0
     IN /\ preds' = <<pred>>
        /\ probs' = <<pr>>
        /\ resp' = [NoResp EXCEPT !.status_code = 200,
                                  !.is_fraud = is_fraud,
                                  !.risk_score = fraud_prob * 100,
                                  !.status = IF is_fraud THEN "Suspicious" ELSE "Safe"]
        /\ stored' = Append(stored,
                            [ timestamp |-> current_ts, amount |-> txn.amount,
                              user_id |-> txn.user_id, city |-> txn.city,
                              category |-> txn.category,
                              risk_score |-> (fraud_prob * 100) \div 1000,
                              status |-> IF is_fraud THEN "Suspicious" ELSE "Safe",
                              is_training_data |-> FALSE ])
        /\ pc' = "done"
  /\ UNCHANGED <<modelFile, loads, nreq, handler, inputs, pipeline, current_ts,
                 history_rows, df, df_processed, new_txns, stored0>>

PredictScore ==
  /\ pc = "p_score"
  /\ \/ LET last_row == <<df_processed[Len(df_processed)]>>
            pred == pipeline_predict(pipeline, last_row)[1]
            pr == pipeline_predict_proba(pipeline, last_row)[1]
            fraud_prob == PredictFraudProb(pipeline.classes_, pr)
            risk_score == fraud_prob * 100
            is_fraud == pred # 0
        IN /\ preds' = <<pred>>
           /\ probs' = <<pr>>
           /\ resp' = [NoResp EXCEPT !.status_code = 200,
                                     !.is_fraud = is_fraud,
                                     !.risk_score = risk_score,
                                     !.status = IF is_fraud THEN "Suspicious" ELSE "Safe"]
           /\ pc' = "done"
     \/ /\ Raise(500, "Prediction failed")
        /\ UNCHANGED <<preds, probs>>
  /\ UNCHANGED <<globals, nreq, handler, inputs, pipeline, current_ts, history_rows,
                 df, df_processed, new_txns, stored0>>

NextPredict ==
  \/ PredictStart
  \/ PredictExists
  \/ PredictLoad
  \/ PredictTimestamp
  \/ PredictHistory
  \/ PredictPreprocess
  \/ PredictScore

\* ---------------------------------------------------------- upload_csv
\* POST /upload: Depends(require_token) runs before the handler's body.
UploadStart ==
  \E h \in Headers :
    /\ Accept(h, "upload", "u_auth")
    /\ UNCHANGED globals

UploadAuth ==
  /\ pc = "u_auth"
  /\ IF require_token_raises(hdr)
       THEN Raise(401, IF hdr.scheme # "Bearer " THEN "Missing bearer token" ELSE "Invalid token")
       ELSE pc' = "u_name" /\ UNCHANGED resp
  /\ UNCHANGED <<globals, nreq, handler, inputs, locals, stored0>>

UploadFilename ==
  /\ pc = "u_name"
  /\ \E name \in {"batch.csv", "batch.xlsx"} :
       /\ file' = [file EXCEPT !.filename = name]
       /\ IF name = "batch.xlsx"
            THEN Raise(400, "Only CSV files are supported")
            ELSE pc' = "u_exists" /\ UNCHANGED resp
  /\ UNCHANGED <<globals, nreq, handler, hdr, txn, locals, stored0>>

UploadExists ==
  /\ pc = "u_exists"
  /\ IF modelFile.state = "missing"
       THEN Raise(400, "Model not found. Please train using model/train.py first.")
       ELSE pc' = "u_load" /\ UNCHANGED resp
  /\ UNCHANGED <<globals, nreq, handler, inputs, locals, stored0>>

UploadLoad ==
  /\ pc = "u_load"
  /\ loads' = loads + 1
  /\ IF modelFile.state = "corrupt"
       THEN Raise(500, "Failed to load model") /\ UNCHANGED pipeline
       ELSE pipeline' = modelFile.content /\ pc' = "u_read" /\ UNCHANGED resp
  /\ UNCHANGED <<modelFile, stored, nreq, handler, inputs, current_ts, history_rows,
                 df, df_processed, preds, probs, new_txns, stored0>>

UploadRead ==
  /\ pc = "u_read"
  /\ \/ \E csv \in CsvFiles :
          /\ file' = [file EXCEPT !.columns = csv.columns, !.rows = csv.rows]
          /\ df' = [columns |-> csv.columns, rows |-> csv.rows]
          /\ pc' = "u_cols"
          /\ UNCHANGED resp
     \/ /\ Raise(400, "Unable to read CSV")
        /\ UNCHANGED <<file, df>>
  /\ UNCHANGED <<globals, nreq, handler, hdr, txn, pipeline, current_ts, history_rows,
                 df_processed, preds, probs, new_txns, stored0>>

\* [c for c in required_cols if c not in df.columns]
RECURSIVE Filter(_, _)
Filter(cols, present) ==
  IF cols = <<>> THEN <<>>
  ELSE IF cols[1] \in present THEN Filter(Tail(cols), present)
  ELSE <<cols[1]>> \o Filter(Tail(cols), present)

\* A check that reports the first missing column only.
MissingColumns_First(columns) ==
  SubSeq(Filter(required_cols, columns), 1, Min(1, Len(Filter(required_cols, columns))))

MissingColumns(columns) == Filter(required_cols, columns)

UploadValidate ==
  /\ pc = "u_cols"
  /\ LET missing == MissingColumns(df.columns)
     IN IF missing # <<>>
          THEN /\ resp' = [NoResp EXCEPT !.status_code = 400,
                                         !.detail = "Missing columns",
                                         !.missing = missing]
               /\ pc' = "done"
          ELSE pc' = "u_prep" /\ UNCHANGED resp
  /\ UNCHANGED <<globals, nreq, handler, inputs, locals, stored0>>

UploadPreprocess ==
  /\ pc = "u_prep"
  /\ \/ /\ ~preprocess_data_raises(df)
        /\ df' = [df EXCEPT !.columns = @ \cup {"Fraud_Type"}]
        /\ df_processed' = preprocess_data(df)
        /\ pc' = "u_score"
        /\ UNCHANGED resp
     \/ /\ Raise(500, "Preprocessing failed")
        /\ df' = [df EXCEPT !.columns = @ \cup {"Fraud_Type"}]
        /\ UNCHANGED df_processed
  /\ UNCHANGED <<globals, nreq, handler, inputs, pipeline, current_ts, history_rows,
                 preds, probs, new_txns, stored0>>

UploadScore ==
  /\ pc = "u_score"
  /\ \/ /\ preds' = pipeline_predict(pipeline, df_processed)
        /\ probs' = pipeline_predict_proba(pipeline, df_processed)
        /\ pc' = "u_rows"
        /\ UNCHANGED resp
     \/ /\ Raise(500, "Model prediction failed")
        /\ UNCHANGED <<preds, probs>>
  /\ UNCHANGED <<globals, nreq, handler, inputs, pipeline, current_ts, history_rows,
                 df, df_processed, new_txns, stored0>>

\* A lookup that takes the first class for the normal one.
NormalIdx_First(classes) == IF 0 \in Elems(classes) THEN 1 ELSE -1

\* Line 340: list(classes).index(0) if 0 in classes else -1
NormalIdx(classes) == IF 0 \in Elems(classes) THEN IndexOfZero(classes) ELSE -1

\* Lines 346-349
UploadFraudProb(normal_idx, p) == IF normal_idx # -1 THEN 1000 - p[normal_idx] ELSE 1000

\* Lines 351-364: the row built from df.iloc[i], pred and probs[i].  The id
\* is a fresh uuid4 and is left out: a row's position in the table stands
\* for it.
TransactionRow(row, pred, p, normal_idx) ==
  LET risk == UploadFraudProb(normal_idx, p) * 100
  IN [ timestamp |-> to_datetime(row.Timestamp),
       amount |-> row.Amount,
       user_id |-> row.UserID,
       city |-> row.City,
       category |-> row.Category,
       risk_score |-> risk \div 1000,
       status |-> IF pred # 0 THEN "Suspicious" ELSE "Safe",
       is_training_data |-> FALSE ]

\* A loop that reads df.iloc[0] for every record.
NewTxns_FirstRow(frame, ps, pr, classes) ==
  [ i \in 1..Len(ps) |-> TransactionRow(frame.rows[1], ps[i], pr[i], NormalIdx(classes)) ]

\* Lines 344-364: for i, pred in enumerate(preds)
NewTxns(frame, ps, pr, classes) ==
  [ i \in 1..Len(ps) |-> TransactionRow(frame.rows[i], ps[i], pr[i], NormalIdx(classes)) ]

UploadRows ==
  /\ pc = "u_rows"
  /\ \/ /\ new_txns' = NewTxns(df, preds, probs, pipeline.classes_)
        /\ pc' = "u_save"
        /\ UNCHANGED resp
     \/ \* a cell conversion raises: the exception is not caught
        /\ Raise(500, "Internal Server Error")
        /\ UNCHANGED new_txns
  /\ UNCHANGED <<globals, nreq, handler, inputs, pipeline, current_ts, history_rows,
                 df, df_processed, preds, probs, stored0>>

\* db.add_all(new_txns); db.commit()
Committed(table, txns) == table \o txns

\* A rollback that is missing: the first pending row stays in the table.
RolledBack_Partial(table, txns) == table \o SubSeq(txns, 1, 1)

\* db.rollback() after a failed add_all or commit
RolledBack(table, txns) == table

UploadSave ==
  /\ pc = "u_save"
  /\ \/ /\ stored' = Committed(stored, new_txns)
        /\ resp' = [NoResp EXCEPT !.status_code = 200,
                                  !.detail = "File processed and transactions stored.",
                                  !.rowsProcessed = Len(new_txns)]
        /\ pc' = "done"
     \/ /\ stored' = RolledBack(stored, new_txns)
        /\ Raise(500, "Database error")
  /\ UNCHANGED <<modelFile, loads, nreq, handler, inputs, locals, stored0>>

NextUpload ==
  \/ UploadStart
  \/ UploadAuth
  \/ UploadFilename
  \/ UploadExists
  \/ UploadLoad
  \/ UploadRead
  \/ UploadValidate
  \/ UploadPreprocess
  \/ UploadScore
  \/ UploadRows
  \/ UploadSave

\* ------------------------------------------------- clear_transactions
\* POST /transactions/clear, with its require_token dependency.
ClearStart ==
  \E h \in Headers :
    /\ Accept(h, "clear", "c_run")
    /\ UNCHANGED globals

ClearTransactions ==
  /\ pc = "c_run"
  /\ IF require_token_raises(hdr)
       THEN /\ Raise(401, IF hdr.scheme # "Bearer " THEN "Missing bearer token" ELSE "Invalid token")
            /\ UNCHANGED stored
       ELSE /\ stored' = <<>>
            /\ resp' = [NoResp EXCEPT !.status_code = 200, !.rowsProcessed = Len(stored)]
            /\ pc' = "done"
  /\ UNCHANGED <<modelFile, loads, nreq, handler, inputs, locals, stored0>>

NextClear == ClearStart \/ ClearTransactions

Next == NextPredict \/ NextUpload \/ NextClear

Spec == Init /\ [][Next]_vars

\* ----------------------------------------------------------- properties
Done(name) == handler = name /\ pc = "done"

Succeeded(name) == Done(name) /\ resp.status_code = 200

\* The stored row made of CSV row `row` and a score.
SameAttributes(rec, row) ==
  /\ ~to_datetime_raises(row.Timestamp)
  /\ rec.timestamp = to_datetime(row.Timestamp)
  /\ rec.user_id = row.UserID
  /\ rec.amount = row.Amount
  /\ rec.city = row.City
  /\ rec.category = row.Category

\* The Risk Mapper's rule: the fraud probability (in thousandths) of a
\* probability vector under a class list.
NormalPositions(classes) == { i \in 1..Len(classes) : classes[i] = 0 }

IsFraudProbability(fp, classes, p) ==
  IF NormalPositions(classes) = {}
    THEN fp = 1000
    ELSE \E i \in NormalPositions(classes) : fp = 1000 - p[i]

\* C1: an upload either stores all records of its batch or none: the table
\* is untouched at every step before the save, a failed upload leaves it
\* as it was, and a successful one has appended one record per CSV row.
C1_AllOrNothing ==
  handler = "upload" =>
    /\ pc # "done" => stored = stored0
    /\ (pc = "done" /\ resp.status_code # 200) => stored = stored0
    /\ (pc = "done" /\ resp.status_code = 200) =>
         /\ Len(stored) = Len(stored0) + Len(file.rows)
         /\ SubSeq(stored, 1, Len(stored0)) = stored0
         /\ df_processed # <<>> /\ Len(preds) = Len(file.rows)

C1_Witness ==
  /\ Done("upload")
  /\ resp.status_code = 500
  /\ resp.detail = "Database error"
  /\ Len(new_txns) = 2
  /\ stored0 # <<>>

\* C2: a successful upload of N rows reports rowsProcessed = N and appends
\* exactly N records, record i with the attributes of row i and the score
\* the pipeline gave row i, whatever the table already holds.
C2_OneRecordPerRow ==
  Succeeded("upload") =>
    LET n == Len(file.rows)
        base == Len(stored0)
    IN /\ resp.rowsProcessed = n
       /\ Len(stored) = base + n
       /\ SubSeq(stored, 1, base) = stored0
       /\ Len(preds) = n /\ Len(probs) = n
       /\ \A i \in 1..n :
            /\ SameAttributes(stored[base + i], file.rows[i])
            /\ stored[base + i].status = (IF preds[i] # 0 THEN "Suspicious" ELSE "Safe")
            /\ \E fp \in 0..1000 :
                 /\ IsFraudProbability(fp, pipeline.classes_, probs[i])
                 /\ stored[base + i].risk_score = (fp * 100) \div 1000

\* the same two-row file uploaded twice in a row: four records
C2_Witness ==
  /\ Succeeded("upload")
  /\ Len(file.rows) = 2
  /\ Len(stored) = 4
  /\ SubSeq(stored, 1, 2) = SubSeq(stored, 3, 4)
  /\ stored[1] # stored[2]

\* C3: an upload whose CSV (once pd.read_csv has read it: file.rows is set)
\* lacks required columns ends with a 400 that names exactly the missing
\* columns, with nothing preprocessed, scored or stored.
C3_MissingColumns ==
  (Done("upload") /\ file.rows # <<>> /\ ~(AllColumns \subseteq file.columns)) =>
    /\ resp.status_code = 400
    /\ resp.detail = "Missing columns"
    /\ Elems(resp.missing) = AllColumns \ file.columns
    /\ df_processed = <<>>
    /\ preds = <<>> /\ probs = <<>> /\ new_txns = <<>>
    /\ stored = stored0

C3_Witness ==
  /\ Done("upload")
  /\ resp.missing = <<"Timestamp", "City", "Category">>
  /\ stored0 # <<>>

\* C4: in both handlers fraud_probability is 1 - probabilities[index of
\* class 0], or 1.0 when class 0 is absent; risk_score is 100 times that,
\* within 0..100 (upload stores its truncation); status is "Suspicious"
\* exactly when the label is not 0.
C4_RiskMapper ==
  /\ Succeeded("predict") =>
       /\ \E fp \in 0..1000 :
            /\ IsFraudProbability(fp, pipeline.classes_, probs[1])
            /\ resp.risk_score = fp * 100
       /\ resp.risk_score \in 0..100000
       /\ resp.is_fraud = (preds[1] # 0)
       /\ resp.status = (IF preds[1] # 0 THEN "Suspicious" ELSE "Safe")
  /\ (handler = "upload" /\ pc = "u_save") =>
       \A i \in 1..Len(preds) :
         /\ \E fp \in 0..1000 :
              /\ IsFraudProbability(fp, pipeline.classes_, probs[i])
              /\ new_txns[i].risk_score = (fp * 100) \div 1000
         /\ new_txns[i].risk_score \in 0..100
         /\ new_txns[i].status = (IF preds[i] # 0 THEN "Suspicious" ELSE "Safe")

\* class 0 at the second place of three, a truncated score and a status
\* that disagrees with the probability mass
C4_Witness ==
  /\ handler = "upload" /\ pc = "u_save"
  /\ pipeline.classes_ = <<-1, 0, 1>>
  /\ \E i \in 1..Len(new_txns) :
       /\ probs[i] = <<500, 245, 255>>
       /\ new_txns[i].risk_score = 75
       /\ new_txns[i].status = "Safe"

\* C5: the history window holds only stored records of the request's user
\* dated strictly before the request, at most HistoryLimit of them, and
\* those are the most recent ones.
Qualifying == { k \in 1..Len(stored) :
                  /\ stored[k].user_id = txn.user_id
                  /\ stored[k].timestamp < to_datetime(Text(txn.timestamp)) }

WindowAssembled == handler = "predict" /\ pc \in {"p_prep", "p_score"}

C5_HistoryWindow ==
  WindowAssembled =>
    LET W == 1..Len(history_rows)
    IN /\ Len(history_rows) <= HistoryLimit
       /\ Len(history_rows) = Min(HistoryLimit, Cardinality(Qualifying))
       /\ \A i \in W :
            /\ history_rows[i].user_id = txn.user_id
            /\ history_rows[i].timestamp < to_datetime(Text(txn.timestamp))
            \* as many copies in the window as the table can give
            /\ Cardinality({ j \in W : history_rows[j] = history_rows[i] })
                 <= Cardinality({ k \in Qualifying : stored[k] = history_rows[i] })
       /\ \A k \in Qualifying, i \in W :
            \* a qualifying record more recent than one of the window is in it
            stored[k].timestamp > history_rows[i].timestamp =>
              Cardinality({ j \in W : history_rows[j] = stored[k] })
                = Cardinality({ m \in Qualifying : stored[m] = stored[k] })

\* more qualifying records than the limit, next to another user's record
C5_Witness ==
  /\ WindowAssembled
  /\ Cardinality(Qualifying) > HistoryLimit
  /\ Len(history_rows) = HistoryLimit
  /\ \E k \in 1..Len(stored) : stored[k].user_id # txn.user_id

\* C6: the frame predict_fraud hands to preprocess_data is in ascending
\* chronological order with the new transaction last.
C6_AscendingFrame ==
  WindowAssembled =>
    /\ \A i, j \in 1..Len(df.rows) :
         i < j => to_datetime(df.rows[i].Timestamp) <= to_datetime(df.rows[j].Timestamp)
    /\ df.rows[Len(df.rows)] = CurrentData(txn, current_ts)

C8_ModelUnavailable ==
  (/\ pc = "done"
   /\ modelFile.state # "pickle"
   /\ \/ handler = "predict"
      \/ handler = "upload" /\ ~require_token_raises(hdr) /\ file.filename = "batch.csv") =>
    /\ resp.status_code \in 500..599
    /\ preds = <<>>
    /\ stored = stored0

\* C9: a request without a valid bearer token gets no prediction from
\* predict_fraud and nothing scored or stored by upload_csv.
ValidBearer(h) ==
  /\ h.scheme = "Bearer "
  /\ h.token \in {"hardcoded-dev-token-for-deployment", "good-jwt"}

C9_Authenticated ==
  (handler \in {"predict", "upload"} /\ ~ValidBearer(hdr)) =>
    /\ resp.status_code # 200
    /\ preds = <<>>
    /\ stored = stored0

\* C10: predict_fraud never changes the transactions table, on any path.
C10_PredictReadOnly == handler = "predict" => stored = stored0

C10_Witness ==
  /\ Succeeded("predict")
  /\ Len(history_rows) = HistoryLimit
  /\ stored = stored0

====
